---- MODULE Spec2Model ----
(***************************************************************************)
(* A model of vba2zip.py, the Vimball converter: the ArchiveMember value,  *)
(* the Readers (directory, Vimball, gzipped Vimball), the Writers          *)
(* (directory, Vimball, gzipped Vimball, zip), archiveConvert and the      *)
(* command line of __main__.                                               *)
(*                                                                         *)
(* A Python str is a sequence of one-character strings; the two gzip magic *)
(* bytes and the NUL byte are the symbols "1f", "8b" and "00".             *)
(***************************************************************************)
EXTENDS Integers, Sequences, FiniteSets, TLC

----------------------------------------------------------------------------
(* Bounds of the model *)

\* files in a source directory tree
MaxFiles == 2
\* file blocks (well-formed or not) in a source Vimball
MaxBlocks == 2

----------------------------------------------------------------------------
(* Python str operations *)

Min(a, b) == IF a < b THEN a ELSE b

Max(a, b) == IF a < b THEN b ELSE a

\* s[:n] for n >= 0
Take(s, n) == SubSeq(s, 1, Min(n, Len(s)))

\* s[n:] for n >= 0
Drop(s, n) == SubSeq(s, Min(n, Len(s)) + 1, Len(s))

\* s[:-n] for n > 0
DropLast(s, n) == SubSeq(s, 1, Max(Len(s) - n, 0))

\* s.endswith(suffix)
EndsWith(s, suffix) ==
  /\ Len(suffix) <= Len(s)
  /\ SubSeq(s, Len(s) - Len(suffix) + 1, Len(s)) = suffix

\* s.startswith(prefix)
StartsWith(s, prefix) ==
  /\ Len(prefix) <= Len(s)
  /\ SubSeq(s, 1, Len(prefix)) = prefix

\* s.count(c) for a one-character c
Count(s, c) == Cardinality({i \in 1..Len(s) : s[i] = c})

\* s.find(c) for a one-character c, 1-based; 0 when c is not in s
Find(s, c) ==
  LET hits == {i \in 1..Len(s) : s[i] = c}
  IN  IF hits = {} THEN 0 ELSE CHOOSE i \in hits : \A j \in hits : i <= j

\* s.rfind(c) for a one-character c, 1-based; 0 when c is not in s
RFind(s, c) ==
  LET hits == {i \in 1..Len(s) : s[i] = c}
  IN  IF hits = {} THEN 0 ELSE CHOOSE i \in hits : \A j \in hits : j <= i

\* s.rstrip(chars)
RStrip(s, chars) ==
  LET keep == {i \in 1..Len(s) : s[i] \notin chars}
  IN  IF keep = {} THEN <<>>
      ELSE SubSeq(s, 1, CHOOSE i \in keep : \A j \in keep : j <= i)

\* s.lstrip(chars)
LStrip(s, chars) ==
  LET keep == {i \in 1..Len(s) : s[i] \notin chars}
  IN  IF keep = {} THEN <<>>
      ELSE SubSeq(s, CHOOSE i \in keep : \A j \in keep : i <= j, Len(s))

\* the characters str.strip() removes ("0b" is the vertical tab)
Whitespace == {" ", "\t", "\n", "\r", "\f", "0b"}

\* s.strip()
Strip(s) == LStrip(RStrip(s, Whitespace), Whitespace)

\* s.split(c) for a one-character c
RECURSIVE Split(_, _)
Split(s, c) ==
  IF Find(s, c) = 0 THEN <<s>>
  ELSE <<Take(s, Find(s, c) - 1)>> \o Split(Drop(s, Find(s, c)), c)

DigitChars == <<"0", "1", "2", "3", "4", "5", "6", "7", "8", "9">>

\* s.isdigit()
IsDigit(s) ==
  /\ s # <<>>
  /\ \A i \in 1..Len(s) : \E d \in 1..10 : s[i] = DigitChars[d]

\* int(s) for a string of digits
RECURSIVE ToInt(_)
ToInt(s) ==
  IF s = <<>> THEN 0
  ELSE 10 * ToInt(DropLast(s, 1))
       + (CHOOSE d \in 0..9 : DigitChars[d + 1] = s[Len(s)])

\* str(n) for n >= 0
RECURSIVE Str(_)
Str(n) ==
  IF n < 10 THEN <<DigitChars[n + 1]>>
  ELSE Str(n \div 10) \o <<DigitChars[(n % 10) + 1]>>

\* "".join(seqs)
RECURSIVE Concat(_)
Concat(seqs) ==
  IF seqs = <<>> THEN <<>> ELSE Head(seqs) \o Concat(Tail(seqs))

\* file.readline() on the unread rest of a stream: up to and with the first newline
ReadLine(rest) ==
  IF Find(rest, "\n") = 0 THEN rest ELSE Take(rest, Find(rest, "\n"))

\* the unread rest after a readline()
AfterLine(rest) == Drop(rest, Len(ReadLine(rest)))

----------------------------------------------------------------------------
(* os.path *)

\* os.path.dirname(p)
Dirname(p) ==
  LET head == Take(p, RFind(p, "/"))
  IN  IF head # <<>> /\ RStrip(head, {"/"}) # <<>>
      THEN RStrip(head, {"/"}) ELSE head

\* os.path.basename(p)
Basename(p) == Drop(p, RFind(p, "/"))

\* os.path.join(a, b)
Join(a, b) ==
  IF StartsWith(b, <<"/">>) THEN b
  ELSE IF a = <<>> \/ EndsWith(a, <<"/">>) THEN a \o b
  ELSE a \o <<"/">> \o b

\* the working directory of every run
Cwd == <<"/", "w">>

\* os.path.abspath(p), for the paths of the model (no "." or ".." parts)
Abspath(p) == IF StartsWith(p, <<"/">>) THEN p ELSE Join(Cwd, p)

----------------------------------------------------------------------------
(* Permission bits *)

RECURSIVE BitAnd(_, _)
BitAnd(a, b) ==
  IF a = 0 \/ b = 0 THEN 0
  ELSE (a % 2) * (b % 2) + 2 * BitAnd(a \div 2, b \div 2)

BitOr(a, b) == a + b - BitAnd(a, b)

\* a & ~b
BitClear(a, b) == a - BitAnd(a, b)

\* 0666, the permissions of a new ArchiveMember before the umask
DefaultPerm == 438
\* 040111, the bits the isdir setter sets and clears
DirExecBits == 16457
\* 040000, the bit the isdir getter tests
DirBit == 16384

----------------------------------------------------------------------------
(* ArchiveMember *)

\* member.data of a member that was given none
None == <<"None">>

\* time.localtime(time.time()): the clock's reading as a struct_time
\* (year, month, day, hour, minute, second, weekday, yearday, isdst)
LocalTimeNow == <<2010, 3, 14, 15, 9, 26, 6, 73, 0>>

\* statbuf.st_mtime of every entry of a source directory: seconds since the epoch
StatMtime == 1268579366

\* a member's mtime is a tuple of fields or a number of seconds
TimeTuple(fields) == [kind |-> "tuple", val |-> fields]

TimeNumber(t) == [kind |-> "number", val |-> <<t>>]

\* the constructor with 0777 for 0666
NewMember_Executable(name, mask) ==
  [name  |-> name,
   data  |-> None,
   perm  |-> BitClear(DefaultPerm + (DirExecBits - DirBit), mask),
   mtime |-> TimeTuple(Take(LocalTimeNow, 6))]

\* ArchiveMember.__init__(name) under the process's umask
NewMember(name, mask) ==
  [name  |-> name,
   data  |-> None,
   perm  |-> BitClear(DefaultPerm, mask),
   mtime |-> TimeTuple(Take(LocalTimeNow, 6))]

\* ArchiveMember.__getattribute__("isdir")
IsDir(m) == BitAnd(m.perm, DirBit) = DirBit

\* the setter with the directory bit alone set for True
SetIsdir_DirBitOnly(perm, value) ==
  IF value THEN BitOr(perm, DirBit) ELSE BitClear(perm, DirExecBits)

\* ArchiveMember.__setattr__("isdir", value): the new perm
SetIsdir(perm, value) ==
  IF value THEN BitOr(perm, DirExecBits) ELSE BitClear(perm, DirExecBits)

\* ArchiveMember.__setattr__(name, value) for a name other than isdir
SetAttr(m, name, value) == [m EXCEPT ![name] = value]

----------------------------------------------------------------------------
(* The gzip library, an external collaborator: a stream that starts with   *)
(* the two magic bytes and carries the text in an encoding of its own,     *)
(* here each character behind a NUL byte.                                  *)

GzipMagic == <<"1f", "8b">>

Deflate(text) ==
  [i \in 1..(2 * Len(text)) |-> IF i % 2 = 1 THEN "00" ELSE text[i \div 2]]

\* the bytes of the file gzip.open(path, 'w') leaves for the text written
GzipBytes(text) == GzipMagic \o Deflate(text)

\* whether gzip.open(path, 'r') can read the bytes
IsGzip(bytes) ==
  /\ StartsWith(bytes, GzipMagic)
  /\ Len(bytes) % 2 = 0
  /\ \A i \in 2..(Len(bytes) \div 2) : bytes[2 * i - 1] = "00"

\* the text gzip.open(path, 'r') reads from bytes that satisfy IsGzip
Inflate(bytes) == [i \in 1..((Len(bytes) \div 2) - 1) |-> bytes[2 * i + 2]]

----------------------------------------------------------------------------
(* Readers: the capability tests *)

\* the size of the head of the file VimballReader.is_supported reads
ReadSize == 4096

UseVimball == <<"U", "s", "e", "V", "i", "m", "b", "a", "l", "l">>

\* open(path, 'rU'): "\r\n" and "\r" read as "\n"
UniversalNewlines(bytes) ==
  LET marked == [i \in 1..Len(bytes) |->
                   IF bytes[i] = "\r" THEN "\n"
                   ELSE IF bytes[i] = "\n" /\ i > 1 /\ bytes[i - 1] = "\r"
                        THEN "drop" ELSE bytes[i]]
      kept(c) == c # "drop"
  IN  SelectSeq(marked, kept)

\* DirectoryReader.is_supported(path) on the object at path
DirectoryIsSupported(obj) == obj.isdir

\* VimballReader.is_supported(path) on the object at path, a file
VimballIsSupported(obj) ==
  LET lines == Split(Take(UniversalNewlines(obj.bytes), ReadSize), "\n")
  IN  \E i \in 1..Len(lines) : Strip(lines[i]) = UseVimball

\* GzippedVimballReader.is_supported(path) on the object at path, a file
GzippedIsSupported(obj) == Take(obj.bytes, 2) = GzipMagic

\* READERS, by id
READERS == <<"dir", "vba", "vba.gz">>

\* Reader.is_supported(path) of the Reader with the given id
IsSupported(id, obj) ==
  CASE id = "dir"    -> DirectoryIsSupported(obj)
    [] id = "vba"    -> VimballIsSupported(obj)
    [] id = "vba.gz" -> GzippedIsSupported(obj)

\* the loop without its break: the last Reader that supports the source
DetectReader_NoBreak(obj) ==
  LET able == {i \in 1..Len(READERS) : IsSupported(READERS[i], obj)}
  IN  IF able = {} THEN 0 ELSE CHOOSE i \in able : \A j \in able : j <= i

\* the Reader the loop over READERS stops at: its index, 0 when none
\* (the loop never asks a Reader past the first that answers true)
DetectReader(obj) ==
  LET able == {i \in 1..Len(READERS) : IsSupported(READERS[i], obj)}
  IN  IF able = {} THEN 0 ELSE CHOOSE i \in able : \A j \in able : i <= j

\* cls.ext of a Reader or Writer, as a str; <<>> stands for None
Ext(id) ==
  CASE id = "vba"    -> <<"v", "b", "a">>
    [] id = "vba.gz" -> <<"v", "b", "a", ".", "g", "z">>
    [] id = "zip"    -> <<"z", "i", "p">>
    [] id = "dir"    -> <<>>

----------------------------------------------------------------------------
(* VimballReader.__iter__: the parser *)

filemarker == <<"\t", "[", "[", "[", "1", "\n">>

FinishLine == <<"f", "i", "n", "i", "s", "h", "\n">>

\* the first loop: readline() until "finish\n" or the end; the unread rest
RECURSIVE SkipPreamble(_)
SkipPreamble(rest) ==
  IF ReadLine(rest) = <<>> THEN rest
  ELSE IF ReadLine(rest) = FinishLine THEN AfterLine(rest)
  ELSE SkipPreamble(AfterLine(rest))

\* the for loop without the check for the end of the stream
RECURSIVE ReadLines_NoEndCheck(_, _)
ReadLines_NoEndCheck(rest, n) ==
  IF n = 0 THEN [ok |-> TRUE, lines |-> <<>>, rest |-> rest]
  ELSE LET more == ReadLines_NoEndCheck(AfterLine(rest), n - 1)
       IN  [ok |-> TRUE, lines |-> ReadLine(rest) \o more.lines,
            rest |-> more.rest]

\* the for loop over range(n): n times readline(), "" raising
RECURSIVE ReadLines(_, _)
ReadLines(rest, n) ==
  IF n = 0 THEN [ok |-> TRUE, lines |-> <<>>, rest |-> rest]
  ELSE IF ReadLine(rest) = <<>> THEN [ok |-> FALSE, lines |-> <<>>, rest |-> rest]
  ELSE LET more == ReadLines(AfterLine(rest), n - 1)
       IN  [ok |-> more.ok, lines |-> ReadLine(rest) \o more.lines,
            rest |-> more.rest]

\* the check of the count line
CountIsValid(numlines) == IsDigit(numlines)

\* one turn of the while True loop on the unread rest
ReadBlock(rest) ==
  LET file     == ReadLine(rest)
      rest1    == AfterLine(rest)
      numlines == RStrip(ReadLine(rest1), {"\n"})
      rest2    == AfterLine(rest1)
      no       == [status |-> "break", raised |-> "", file |-> <<>>,
                   lines |-> <<>>, rest |-> rest]
  IN  IF file = <<>> THEN no
      ELSE IF ~EndsWith(file, filemarker)
        THEN [no EXCEPT !.status = "raise", !.raised = "FIXME Bad Vimball"]
      ELSE IF ~CountIsValid(numlines)
        THEN [no EXCEPT !.status = "raise", !.raised = "FIXME Bad Vimball!"]
      ELSE LET got == ReadLines(rest2, ToInt(numlines))
           IN  IF ~got.ok
               THEN [no EXCEPT !.status = "raise",
                               !.raised = "FIXME Truncated Vimball"]
               ELSE [status |-> "block", raised |-> "",
                     file |-> DropLast(file, Len(filemarker)),
                     lines |-> got.lines, rest |-> got.rest]

----------------------------------------------------------------------------
(* The order of str values, which list.sort() uses *)

\* the characters in the order of their codes (backslash and backquote left out)
CharOrder ==
<<
  "\t", "\n", "\f", "\r", " ", "!", "\"", "#", "$", "%", "&", "'",
  "(", ")", "*", "+", ",", "-", ".", "/", "0", "1", "2", "3",
  "4", "5", "6", "7", "8", "9", ":", ";", "<", "=", ">", "?",
  "@", "A", "B", "C", "D", "E", "F", "G", "H", "I", "J", "K",
  "L", "M", "N", "O", "P", "Q", "R", "S", "T", "U", "V", "W",
  "X", "Y", "Z", "[", "]", "^", "_", "a", "b", "c",
  "d", "e", "f", "g", "h", "i", "j", "k", "l", "m", "n", "o",
  "p", "q", "r", "s", "t", "u", "v", "w", "x", "y", "z", "{",
  "|", "}", "~">>

Ord(c) == CHOOSE i \in 1..Len(CharOrder) : CharOrder[i] = c

\* a < b for two str values
StrLess(a, b) ==
  \E i \in 1..(Len(b)) :
    /\ \A j \in 1..(i - 1) : j <= Len(a) /\ a[j] = b[j]
    /\ \/ i = Len(a) + 1
       \/ i <= Len(a) /\ Ord(a[i]) < Ord(b[i])

\* the list of a set of str values after list.sort()
RECURSIVE Sorted(_)
Sorted(names) ==
  IF names = {} THEN <<>>
  ELSE LET least == CHOOSE n \in names : \A o \in names \ {n} : StrLess(n, o)
       IN  <<least>> \o Sorted(names \ {least})

----------------------------------------------------------------------------
(* The filesystem, an external collaborator: disk maps a path to a file    *)
(* (its bytes) or to a directory tree (its directories and files by the    *)
(* name relative to the root, as os.walk and os.stat report them).         *)

EmptyMap == [n \in {} |-> 0]

FileObj(bytes) ==
  [isdir |-> FALSE, bytes |-> bytes, dirs |-> EmptyMap, files |-> EmptyMap]

DirObj(dirs, files) ==
  [isdir |-> TRUE, bytes |-> <<>>, dirs |-> dirs, files |-> files]

\* f with key k bound to v, as dict[k] = v
Put(f, k, v) == (k :> v) @@ f

\* 0777, the permission bits mkdir and open apply
PermMask == DefaultPerm + (DirExecBits - DirBit)

\* 0100000, the type bits stat reports for a regular file
RegBit == 2 * DirBit

\* the directories under directory d of a tree, in the order listed (sorted)
SubDirs(tree, d) == Sorted({n \in DOMAIN tree.dirs : Dirname(n) = d /\ n # d})

\* the files of directory d of a tree, in the order listed (sorted)
FilesIn(tree, d) == Sorted({n \in DOMAIN tree.files : Dirname(n) = d /\ n # d})

\* DirectoryReader.__init__: self.dirnames after os.walk from directory d down
RECURSIVE WalkDirs(_, _)
WalkDirs(tree, d) ==
  LET subs == SubDirs(tree, d)
  IN  subs \o Concat([i \in 1..Len(subs) |-> WalkDirs(tree, subs[i])])

\* DirectoryReader.__init__: self.filenames after os.walk from directory d down
RECURSIVE WalkFiles(_, _)
WalkFiles(tree, d) ==
  LET subs == SubDirs(tree, d)
  IN  FilesIn(tree, d)
      \o Concat([i \in 1..Len(subs) |-> WalkFiles(tree, subs[i])])

----------------------------------------------------------------------------
(* Writers *)

VimballHeader ==
  <<"\"", " ", "V", "i", "m", "b", "a", "l", "l", " ", "A", "r", "c", "h",
    "i", "v", "e", "r", " ", "b", "y", " ", "C", "h", "a", "r", "l", "e",
    "s", " ", "E", ".", " ", "C", "a", "m", "p", "b", "e", "l", "l", ",",
    " ", "J", "r", ".", ",", " ", "P", "h", ".", "D", ".", "\n",
    "U", "s", "e", "V", "i", "m", "b", "a", "l", "l", "\n",
    "f", "i", "n", "i", "s", "h", "\n">>

\* WRITERS.keys()
WRITERS == {"dir", "vba", "vba.gz", "zip"}

\* a Writer: its class id, the path it writes, header_written, the arguments
\* of its archive.write calls in order, and a ZipFile's entries in order
NoWriter ==
  [cls |-> "none", path |-> <<>>, header_written |-> FALSE,
   writes |-> <<>>, filelist |-> <<>>]

\* the bytes of the archive file after the writes of a Vimball writer
ArchiveBytes(cls, writes) ==
  IF cls = "vba.gz" THEN GzipBytes(Concat(writes)) ELSE Concat(writes)

\* the writes with the data as it is, no newline appended
BlockWrites_NoNewline(m) ==
  <<m.name \o <<"\t", "[", "[", "[", "1", "\n">>,
    Str(Count(m.data, "\n")) \o <<"\n">>,
    m.data>>

\* the three writes of VimballWriter.add for a file member
BlockWrites(m) ==
  LET data == IF EndsWith(m.data, <<"\n">>) THEN m.data ELSE m.data \o <<"\n">>
  IN  <<m.name \o <<"\t", "[", "[", "[", "1", "\n">>,
        Str(Count(data, "\n")) \o <<"\n">>,
        data>>

\* the write of the header with header_written never read
HeaderWrites_EveryAdd(w) == <<VimballHeader>>

\* the write of the header, when VimballWriter.add finds none written
HeaderWrites(w) == IF w.header_written THEN <<>> ELSE <<VimballHeader>>

\* VimballWriter.add(member): the writer and the disk after it, or what it raised
VimballWriterAdd(w, m, d) ==
  LET w1 == [w EXCEPT !.writes = @ \o HeaderWrites(w), !.header_written = TRUE]
      w2 == IF IsDir(m) THEN w1
            ELSE [w1 EXCEPT !.writes = @ \o BlockWrites(m)]
      wr == IF ~IsDir(m) /\ m.data = None THEN w1 ELSE w2
  IN  [w |-> wr,
       d |-> [d EXCEPT ![w.path] = FileObj(ArchiveBytes(w.cls, wr.writes))],
       raised |-> IF ~IsDir(m) /\ m.data = None THEN "AttributeError" ELSE ""]

\* the first year a zip entry can carry
ZipEpochYear == 1980

\* ZipWriter.add(member): ZipInfo takes date_time as a tuple of six fields
ZipWriterAdd(w, m, d) ==
  IF IsDir(m) THEN [w |-> w, d |-> d, raised |-> ""]
  ELSE IF m.mtime.kind # "tuple" \/ m.data = None
    THEN [w |-> w, d |-> d, raised |-> "TypeError"]
  ELSE IF m.mtime.val[1] < ZipEpochYear
    THEN [w |-> w, d |-> d, raised |-> "ValueError"]
  ELSE LET info == [name |-> m.name, date_time |-> m.mtime.val,
                    external_attr |-> m.perm * 65536, data |-> m.data]
       IN  [w |-> [w EXCEPT !.filelist = Append(@, info)],
            d |-> [d EXCEPT ![w.path] =
                     FileObj(@.bytes \o <<"P", "K">> \o m.name \o m.data)],
            raised |-> ""]

\* whether the tree holds the directory a relative name lies in
HasParent(tree, name) ==
  Dirname(name) = <<>> \/ Dirname(name) \in DOMAIN tree.dirs

\* whether os.path.join(archivepath, name) is a directory of the tree
IsTreeDir(tree, name) ==
  RStrip(name, {"/"}) = <<>> \/ RStrip(name, {"/"}) \in DOMAIN tree.dirs

\* DirectoryWriter.add(member) under the process's umask
DirectoryWriterAdd(w, m, d, mask) ==
  LET tree == d[w.path]
      fail(e) == [w |-> w, d |-> d, raised |-> e]
  IN  IF IsDir(m)
      THEN IF IsTreeDir(tree, m.name) \/ m.name \in DOMAIN tree.files
             \/ ~HasParent(tree, m.name)
           THEN fail("OSError")
           ELSE [w |-> w,
                 d |-> [d EXCEPT ![w.path].dirs =
                          Put(@, m.name,
                              DirBit + BitClear(BitAnd(m.perm, PermMask), mask))],
                 raised |-> ""]
      ELSE IF IsTreeDir(tree, m.name) \/ ~HasParent(tree, m.name)
           THEN fail("IOError")
           ELSE IF m.data = None THEN fail("TypeError")
           ELSE [w |-> w,
                 d |-> [d EXCEPT ![w.path].files =
                          Put(@, m.name,
                              [data |-> m.data,
                               mode |-> IF m.name \in DOMAIN tree.files
                                        THEN tree.files[m.name].mode
                                        ELSE RegBit + BitClear(DefaultPerm, mask)])],
                 raised |-> ""]

\* writer.add(member) of the Writer constructed
WriterAdd(w, m, d, mask) ==
  CASE w.cls = "dir" -> DirectoryWriterAdd(w, m, d, mask)
    [] w.cls = "zip" -> ZipWriterAdd(w, m, d)
    [] OTHER         -> VimballWriterAdd(w, m, d)

----------------------------------------------------------------------------
(* The inputs: source directory trees and source files *)

TreePaths == {<<"r">>, <<"a", "/", "b", ".", "t", "x", "t">>,
              <<"a", "/", "e", "/", "f">>}

Contents == {<<>>, <<"h", "i">>, <<"a", "\n", "b", "\n">>}

\* the st_mode of the files and of the directories of a source tree, and the
\* empty directories it holds: 0100644 and 040755 and none, or 0100755 and
\* 040700 and the directory m
TreeShapes ==
  {[file |-> RegBit + 420, dir |-> DirBit + 493, empty |-> {}],
   [file |-> RegBit + 493, dir |-> DirBit + 448, empty |-> {<<"m">>}]}

\* the directories a relative name lies in, the root left out
RECURSIVE Ancestors(_)
Ancestors(name) ==
  IF Dirname(name) = <<>> THEN {}
  ELSE {Dirname(name)} \cup Ancestors(Dirname(name))

\* the source trees: at most MaxFiles files, the directories they lie in and
\* the empty ones
SourceTrees ==
  { DirObj([n \in (UNION {Ancestors(f) : f \in DOMAIN data}) \cup shape.empty
              |-> shape.dir],
           [f \in DOMAIN data |-> [data |-> data[f], mode |-> shape.file]])
    : data \in UNION {[S -> Contents] :
                        S \in {T \in SUBSET TreePaths : Cardinality(T) <= MaxFiles}},
      shape \in TreeShapes }

\* a file block as VimballWriter writes it
Block(name, count, lines) == name \o filemarker \o count \o <<"\n">> \o lines

\* the pieces a source Vimball is made of: well-formed blocks, a block with a
\* count that is no number, a block with too few lines, a line without marker
Pieces ==
  { Block(<<"r">>, <<"0">>, <<>>),
    Block(<<"a", "/", "b", ".", "t", "x", "t">>, <<"1">>, <<"h", "i", "\n">>),
    Block(<<"r">>, <<"a", "b", "c">>, <<>>),
    Block(<<"a", "/", "b", ".", "t", "x", "t">>, <<"3">>, <<"h", "i", "\n">>),
    <<"r", "\n">> }

\* the sequences of at most n elements of S
RECURSIVE SeqsUpTo(_, _)
SeqsUpTo(S, n) ==
  IF n = 0 THEN {<<>>}
  ELSE LET shorter == SeqsUpTo(S, n - 1)
       IN  shorter \cup {Append(q, x) : q \in shorter, x \in S}

\* a header that lacks a line: the finish line, or all but the finish line
BrokenHeaders == {DropLast(VimballHeader, Len(FinishLine)), FinishLine}

\* the source texts: the header and at most MaxBlocks pieces, or a broken
\* header and at most a piece
SourceTexts ==
  {VimballHeader \o Concat(body) : body \in SeqsUpTo(Pieces, MaxBlocks)}
  \cup {pre \o Concat(body) : pre \in BrokenHeaders, body \in SeqsUpTo(Pieces, 1)}

\* the source files: a Vimball text, the same gzipped, and a text behind the
\* gzip magic bytes and a newline
SourceFiles ==
  {FileObj(t) : t \in SourceTexts}
  \cup {FileObj(GzipBytes(VimballHeader \o Concat(body))) :
          body \in SeqsUpTo(Pieces, MaxBlocks)}
  \cup {FileObj(GzipMagic \o <<"\n">> \o VimballHeader \o Concat(body)) :
          body \in SeqsUpTo(Pieces, MaxBlocks)}

\* the name of a source by what it is
SourceName(obj) ==
  IF obj.isdir THEN <<"p">>
  ELSE IF StartsWith(obj.bytes, GzipMagic)
       THEN <<"p", ".", "v", "b", "a", ".", "g", "z">>
       ELSE <<"p", ".", "v", "b", "a">>

\* where a source lies and the umask of the process: in the working directory
\* under 022, or in /t under 0
Environments ==
  {[root |-> <<>>, umask |-> 18], [root |-> <<"/", "t">>, umask |-> 0]}

----------------------------------------------------------------------------
(* The state of a run of the program *)

VARIABLES
  disk,     \* the filesystem: absolute path -> file or directory tree
  args,     \* the positional arguments
  opts,     \* the options: outmode and list_outputs
  umask,    \* the umask of the process
  pc,       \* where the program is
  reader,   \* the Reader constructed, with the locals of its __iter__
  writer,   \* the Writer constructed
  outfile,  \* the variable outfile of __main__
  member,   \* the member last passed to writer.add
  raised,   \* the exception that ended the run, "" when none
  phase,    \* "forth": the first conversion; "back": the one of its output
  first,    \* the first conversion, once it is over
  obj,      \* an ArchiveMember of its own, assigned to directly
  op        \* the last assignment to obj

vars == <<disk, args, opts, umask, pc, reader, writer, outfile, member, raised,
          phase, first, obj, op>>

\* outfile before __main__ assigns it
Unbound == <<"unbound">>

NoMember == [name |-> <<>>, data |-> None, perm |-> 0, mtime |-> TimeTuple(<<>>)]

\* a Reader: its class id, its path, the unread rest of self.archive (broken:
\* the gzip stream cannot be read), the locals files, dirs_set and dirs of
\* VimballReader.__iter__, the names of the blocks read in order, dirnames and
\* filenames of DirectoryReader, the members yielded so far (pos of the
\* current list, the files left in the dict, the names of the file members)
NoReader ==
  [cls |-> "none", path |-> <<>>, archive |-> <<>>, broken |-> FALSE,
   files |-> EmptyMap, dirs_set |-> {}, dirs |-> <<>>, blocks |-> <<>>,
   dirnames |-> <<>>, filenames |-> <<>>,
   pos |-> 0, pending |-> {}, yielded |-> <<>>]

\* the last assignment to obj, the one before it, and perm before the last
NoOp == [last |-> "none", prev |-> "none", before |-> 0]

NoFirst == [src |-> <<>>, out |-> <<>>, reader |-> "none", writer |-> "none"]

\* Reader(args[0]) for the Reader with the given id
NewReader(id, path, d) ==
  CASE id = "dir" ->
         [NoReader EXCEPT !.cls = id, !.path = path,
                          !.dirnames = WalkDirs(d[path], <<>>),
                          !.filenames = WalkFiles(d[path], <<>>)]
    [] id = "vba" ->
         [NoReader EXCEPT !.cls = id, !.path = path, !.archive = d[path].bytes]
    [] id = "vba.gz" ->
         IF IsGzip(d[path].bytes)
         THEN [NoReader EXCEPT !.cls = id, !.path = path,
                               !.archive = Inflate(d[path].bytes)]
         ELSE [NoReader EXCEPT !.cls = id, !.path = path, !.broken = TRUE]

Exists(d, path) == Abspath(path) \in DOMAIN d

\* the default of outfile, when the command line gives the source alone
DefaultOutfile(src, readerId, writerId) ==
  LET base == Basename(src)
      cut  == IF Ext(readerId) # <<>> /\ EndsWith(base, Ext(readerId))
              THEN DropLast(base, Len(Ext(readerId)) + 1) ELSE base
      ext  == IF Ext(writerId) # <<>> THEN cut \o <<".">> \o Ext(writerId)
              ELSE cut
  IN  IF Abspath(src) = Abspath(ext) THEN ext \o <<".", "o", "u", "t">> ELSE ext

\* the value of outfile when Writer(outfile) is evaluated
OutfileAtWriter(argv, readerId, writerId) ==
  IF Len(argv) = 1 THEN DefaultOutfile(argv[1], readerId, writerId) ELSE Unbound

\* Writer(path) for the Writer with the given id: the writer and the disk
\* after it, or what it raised
NewWriter(id, path, d) ==
  LET w == [NoWriter EXCEPT !.cls = id, !.path = Abspath(path)]
      fail(e) == [w |-> NoWriter, d |-> d, raised |-> e]
      isdir == Exists(d, path) /\ d[Abspath(path)].isdir
  IN  CASE id = "dir" ->
             IF Exists(d, path) THEN fail("IOError: Directory exists!")
             ELSE [w |-> w, d |-> Put(d, Abspath(path), DirObj(EmptyMap, EmptyMap)),
                   raised |-> ""]
        [] id = "vba" ->
             IF isdir THEN fail("IOError")
             ELSE [w |-> w, d |-> Put(d, Abspath(path), FileObj(<<>>)),
                   raised |-> ""]
        [] id = "vba.gz" ->
             IF isdir THEN fail("IOError")
             ELSE [w |-> w, d |-> Put(d, Abspath(path), FileObj(GzipBytes(<<>>))),
                   raised |-> ""]
        [] id = "zip" ->
             IF isdir THEN fail("IOError")
             ELSE [w |-> w, d |-> Put(d, Abspath(path), FileObj(<<>>)),
                   raised |-> ""]

----------------------------------------------------------------------------
(* The program *)

\* the command lines: the source, then perhaps a destination and one more
ArgLists(src) ==
  {Take(<<src, <<"q">>, <<"z">>>>, n) : n \in 0..3}

\* a run starts on a source with a command line; the runs the options end at
\* once start on one source only
Init ==
  \E src \in SourceTrees \cup SourceFiles, env \in Environments,
     mode \in WRITERS, list \in BOOLEAN :
    \E argv \in ArgLists(Join(env.root, SourceName(src))) :
      /\ (list \/ Len(argv) \notin {1, 2}) =>
           (src = DirObj(EmptyMap, EmptyMap) /\ env.root = <<>>)
      /\ disk = (Abspath(Join(env.root, SourceName(src))) :> src)
      /\ args = argv
      /\ opts = [outmode |-> mode, list_outputs |-> list]
      /\ umask = env.umask
      /\ pc = "start"
      /\ reader = NoReader
      /\ writer = NoWriter
      /\ outfile = Unbound
      /\ member = NoMember
      /\ raised = ""
      /\ phase = "forth"
      /\ first = NoFirst
      /\ obj = NoMember
      /\ op = NoOp

\* lines 308-316: the options that end the run, and the count of arguments
ParseArgs ==
  /\ pc = "start"
  /\ IF opts.list_outputs
     THEN pc' = "exit" /\ raised' = "SystemExit"
     ELSE IF ~(0 < Len(args) /\ Len(args) < 3)
     THEN pc' = "exit" /\ raised' = "SystemExit(1)"
     ELSE pc' = "detect" /\ raised' = raised
  /\ UNCHANGED <<disk, args, opts, umask, reader, writer, outfile, member,
                 phase, first, obj, op>>

\* lines 318-323: the first Reader of READERS that supports the source
Detect ==
  /\ pc = "detect"
  /\ LET path == Abspath(args[1])
         i    == DetectReader(disk[path])
     IN  IF i = 0
         THEN /\ raised' = "IOError: Input format unsupported"
              /\ pc' = "error"
              /\ reader' = reader
         ELSE /\ reader' = NewReader(READERS[i], path, disk)
              /\ pc' = "writer"
              /\ raised' = raised
  /\ UNCHANGED <<disk, args, opts, umask, writer, outfile, member, phase,
                 first, obj, op>>

\* lines 325-342: the default of outfile, and the Writer on outfile
MakeWriter ==
  /\ pc = "writer"
  /\ LET out == OutfileAtWriter(args, reader.cls, opts.outmode)
     IN  /\ outfile' = out
         /\ args' = IF Len(args) = 1 THEN Append(args, out) ELSE args
         /\ IF out = Unbound
            THEN /\ raised' = "NameError: name 'outfile' is not defined"
                 /\ pc' = "error"
                 /\ UNCHANGED <<writer, disk>>
            ELSE LET r == NewWriter(opts.outmode, out, disk)
                 IN  /\ writer' = r.w
                     /\ disk' = r.d
                     /\ raised' = r.raised
                     /\ pc' = IF r.raised # "" THEN "error"
                              ELSE IF reader.cls = "dir" THEN "members"
                              ELSE "preamble"
  /\ UNCHANGED <<opts, umask, reader, member, phase, first, obj, op>>

\* line 280: writer.add(member), an exception ending the run
Hand(m) ==
  LET r == WriterAdd(writer, m, disk, umask)
  IN  /\ member' = m
      /\ writer' = r.w
      /\ disk' = r.d
      /\ raised' = r.raised
      /\ pc' = IF r.raised = "" THEN pc ELSE "error"

\* lines 112-114, in the first next() of VimballReader.__iter__
Preamble ==
  /\ pc = "preamble"
  /\ IF reader.broken
     THEN pc' = "error" /\ raised' = "IOError" /\ reader' = reader
     ELSE /\ reader' = [reader EXCEPT !.archive = SkipPreamble(@)]
          /\ pc' = "blocks"
          /\ raised' = raised
  /\ UNCHANGED <<disk, args, opts, umask, writer, outfile, member, phase,
                 first, obj, op>>

\* lines 116-141: one turn of the while True loop; the break sorts the dirs
ReadBlockStep ==
  /\ pc = "blocks"
  /\ LET b == ReadBlock(reader.archive)
     IN  CASE b.status = "raise" ->
                /\ raised' = b.raised
                /\ pc' = "error"
                /\ reader' = reader
           [] b.status = "block" ->
                /\ reader' = [reader EXCEPT
                     !.archive = b.rest,
                     !.files = Put(@, b.file, b.lines),
                     !.blocks = Append(@, b.file),
                     !.dirs_set = @ \cup {Dirname(b.file)}]
                /\ UNCHANGED <<pc, raised>>
           [] b.status = "break" ->
                /\ reader' = [reader EXCEPT
                     !.dirs = Sorted(reader.dirs_set),
                     !.pending = DOMAIN reader.files]
                /\ pc' = "yield"
                /\ raised' = raised
  /\ UNCHANGED <<disk, args, opts, umask, writer, outfile, member, phase,
                 first, obj, op>>

\* lines 143-146: the next directory member, handed to the writer
YieldDir ==
  /\ pc = "yield"
  /\ reader.pos < Len(reader.dirs)
  /\ LET dir == reader.dirs[reader.pos + 1]
         m   == NewMember(dir, umask)
     IN  Hand([m EXCEPT !.perm = SetIsdir(m.perm, TRUE)])
  /\ reader' = [reader EXCEPT !.pos = @ + 1]
  /\ UNCHANGED <<args, opts, umask, outfile, phase, first, obj, op>>

\* lines 148-151: the next file member, in the order of files.items(), which
\* the dict decides, handed to the writer
YieldFile ==
  /\ pc = "yield"
  /\ reader.pos = Len(reader.dirs)
  /\ \E file \in reader.pending :
       /\ Hand(SetAttr(NewMember(file, umask), "data", reader.files[file]))
       /\ reader' = [reader EXCEPT !.pending = @ \ {file},
                                   !.yielded = Append(@, file)]
  /\ UNCHANGED <<args, opts, umask, outfile, phase, first, obj, op>>

\* lines 233-240: the next directory member of DirectoryReader
DirYieldDir ==
  /\ pc = "members"
  /\ reader.pos < Len(reader.dirnames)
  /\ LET directory == reader.dirnames[reader.pos + 1]
         st_mode   == disk[reader.path].dirs[directory]
         m         == NewMember(directory, umask)
     IN  Hand(SetAttr(SetAttr(m, "perm", st_mode), "mtime", TimeNumber(StatMtime)))
  /\ reader' = [reader EXCEPT !.pos = @ + 1]
  /\ UNCHANGED <<args, opts, umask, outfile, phase, first, obj, op>>

\* lines 241-251: the next file member of DirectoryReader
DirYieldFile ==
  /\ pc = "members"
  /\ reader.pos >= Len(reader.dirnames)
  /\ reader.pos < Len(reader.dirnames) + Len(reader.filenames)
  /\ LET filename == reader.filenames[reader.pos - Len(reader.dirnames) + 1]
         entry    == disk[reader.path].files[filename]
         m        == NewMember(filename, umask)
     IN  Hand(SetAttr(SetAttr(SetAttr(m, "perm", entry.mode),
                              "mtime", TimeNumber(StatMtime)),
                      "data", entry.data))
  /\ reader' = [reader EXCEPT !.pos = @ + 1,
                              !.yielded = Append(@, reader.filenames[
                                 reader.pos - Len(reader.dirnames) + 1])]
  /\ UNCHANGED <<args, opts, umask, outfile, phase, first, obj, op>>

\* lines 278-280, 344: the reader has no member left, archiveConvert returns
Finish ==
  /\ \/ pc = "yield" /\ reader.pos = Len(reader.dirs) /\ reader.pending = {}
     \/ pc = "members"
        /\ reader.pos = Len(reader.dirnames) + Len(reader.filenames)
  /\ pc' = "done"
  /\ UNCHANGED <<disk, args, opts, umask, reader, writer, outfile, member,
                 raised, phase, first, obj, op>>

\* the program run again, on the output of the first conversion and for the
\* format of its source: the conversion back
ConvertBack ==
  /\ pc = "done"
  /\ phase = "forth"
  /\ phase' = "back"
  /\ first' = [src |-> reader.path, out |-> writer.path,
               reader |-> reader.cls, writer |-> writer.cls]
  /\ args' = <<writer.path>>
  /\ opts' = [outmode |-> reader.cls, list_outputs |-> FALSE]
  /\ pc' = "start"
  /\ reader' = NoReader
  /\ writer' = NoWriter
  /\ outfile' = Unbound
  /\ member' = NoMember
  /\ UNCHANGED <<disk, umask, raised, obj, op>>

Next ==
  \/ ParseArgs
  \/ Detect
  \/ MakeWriter
  \/ Preamble
  \/ ReadBlockStep
  \/ YieldDir
  \/ YieldFile
  \/ DirYieldDir
  \/ DirYieldFile
  \/ Finish
  \/ ConvertBack

Spec == Init /\ [][Next]_vars

----------------------------------------------------------------------------
(* An ArchiveMember on its own: assignments to perm and to isdir *)

\* the bits a perm is made of here: 01, 010, 0100, 0200, 0400, 04000, 040000
\* and 0100000
PermBitPositions == {0, 3, 6, 7, 8, 11, 14, 15}

RECURSIVE Pow2(_)
Pow2(k) == IF k = 0 THEN 1 ELSE 2 * Pow2(k - 1)

RECURSIVE BitsValue(_)
BitsValue(S) ==
  IF S = {} THEN 0
  ELSE LET k == CHOOSE x \in S : TRUE IN Pow2(k) + BitsValue(S \ {k})

PermValues == {BitsValue(S) : S \in SUBSET PermBitPositions}

\* a member constructed and given its perm, as the Readers do
InitMember ==
  /\ disk = EmptyMap
  /\ args = <<>>
  /\ opts = [outmode |-> "zip", list_outputs |-> FALSE]
  /\ umask \in {18, 0}
  /\ pc = "member"
  /\ reader = NoReader
  /\ writer = NoWriter
  /\ outfile = Unbound
  /\ member = NoMember
  /\ raised = ""
  /\ phase = "forth"
  /\ first = NoFirst
  /\ \E value \in PermValues \cup {BitClear(DefaultPerm, umask)} :
       obj = SetAttr(NewMember(<<"n">>, umask), "perm", value)
  /\ op = NoOp

\* member.isdir = value
AssignIsdir ==
  /\ pc = "member"
  /\ \E value \in BOOLEAN :
       /\ obj' = [obj EXCEPT !.perm = SetIsdir(@, value)]
       /\ op' = [last |-> IF value THEN "isdir=True" ELSE "isdir=False",
                 prev |-> op.last, before |-> obj.perm]
  /\ UNCHANGED <<disk, args, opts, umask, pc, reader, writer, outfile, member,
                 raised, phase, first>>

NextMember == AssignIsdir

SpecMember == InitMember /\ [][NextMember]_vars

----------------------------------------------------------------------------
(* Claims *)

\* bit k of a perm value
Bit(n, k) == (n \div Pow2(k)) % 2

\* the positions of the three execute bits, 0111, and of the directory bit
ExecPositions == {0, 3, 6}

DirPosition == 14

\* C2 as stated: after isdir = True all three execute bits of perm are set;
\* after isdir = False next, exactly the three execute bits are cleared and
\* every other bit of perm is as it was before that assignment
C2_Original ==
  /\ op.last = "isdir=True" => \A k \in ExecPositions : Bit(obj.perm, k) = 1
  /\ (op.last = "isdir=False" /\ op.prev = "isdir=True") =>
       \A k \in 0..15 :
         Bit(obj.perm, k) = IF k \in ExecPositions THEN 0 ELSE Bit(op.before, k)

\* C2 as amended: after isdir = True all three execute bits of perm are set;
\* after isdir = False next, exactly the three execute bits and the directory
\* bit (040111) are cleared and every other bit of perm is as it was before
C2_IsdirSetter ==
  /\ op.last = "isdir=True" => \A k \in ExecPositions : Bit(obj.perm, k) = 1
  /\ (op.last = "isdir=False" /\ op.prev = "isdir=True") =>
       \A k \in 0..15 :
         Bit(obj.perm, k) = IF k \in ExecPositions \cup {DirPosition} THEN 0
                            ELSE Bit(op.before, k)

\* C2's case: isdir = True then isdir = False on a perm with other bits set
C2_Witness ==
  /\ op.last = "isdir=False"
  /\ op.prev = "isdir=True"
  /\ Bit(obj.perm, 15) = 1
  /\ Bit(obj.perm, 8) = 1
  /\ Bit(obj.perm, 11) = 1

----------------------------------------------------------------------------

\* the source of the run: what args[0] names
Source == disk[Abspath(args[1])]

\* the run is past the loop over READERS
Detected == pc \notin {"start", "detect", "exit", "member"}

\* the characters that end a line of a file opened with 'rU'
LineBreaks == {"\n", "\r"}

\* some line of the head of the bytes is UseVimball between blanks
HasUseVimballLine(bytes) ==
  LET head == Take(bytes, ReadSize)
      blank(k) == head[k] \in Whitespace \ LineBreaks
      sameLine(a, b) == \A j \in a..b : head[j] \notin LineBreaks
  IN  \E i \in 1..(Len(head) - Len(UseVimball) + 1) :
        /\ SubSeq(head, i, i + Len(UseVimball) - 1) = UseVimball
        /\ \A k \in 1..(i - 1) : sameLine(k, i - 1) => blank(k)
        /\ \A k \in (i + Len(UseVimball))..Len(head) :
             sameLine(i + Len(UseVimball), k) => blank(k)

\* the source is a file that starts with the gzip magic number 0x1f 0x8b
MagicSource ==
  /\ Detected
  /\ ~Source.isdir
  /\ Len(Source.bytes) >= 2
  /\ Source.bytes[1] = "1f"
  /\ Source.bytes[2] = "8b"

\* C3 as stated: for a source that starts with the gzip magic number, whatever
\* follows, the loop over READERS selects GzippedVimballReader
C3_Original == MagicSource => reader.cls = "vba.gz"

\* C3 as amended: for a source that starts with the gzip magic number the loop
\* selects GzippedVimballReader unless a line of its first 4096 bytes is
\* UseVimball between blanks, and then it selects VimballReader
C3_Detection ==
  MagicSource =>
    reader.cls = IF HasUseVimballLine(Source.bytes) THEN "vba" ELSE "vba.gz"

\* C3's case: a source with the magic number was given to GzippedVimballReader,
\* which read its blocks
C3_Witness == MagicSource /\ reader.cls = "vba.gz" /\ reader.blocks # <<>>

\* perm has the directory bit consistent with the three execute bits
Consistent(perm) ==
  /\ Bit(perm, DirPosition) = 1 => \A k \in ExecPositions : Bit(perm, k) = 1
  /\ Bit(perm, DirPosition) = 0 => \A k \in ExecPositions : Bit(perm, k) = 0

\* C9 as stated: every member a Reader hands to a Writer has the directory bit
\* of perm consistent with its three execute bits
C9_Original == member # NoMember => Consistent(member.perm)

\* C9 as amended: every member VimballReader or GzippedVimballReader hands to
\* a Writer has the directory bit of perm consistent with its three execute
\* bits (a member of DirectoryReader carries the st_mode of its entry)
C9_VimballMembers ==
  (member # NoMember /\ reader.cls \in {"vba", "vba.gz"}) =>
    Consistent(member.perm)

\* C9's case: VimballReader handed over a directory member, then a file member
C9_Witness ==
  /\ reader.cls = "vba"
  /\ reader.pos > 0
  /\ reader.yielded # <<>>
  /\ ~IsDir(member)

\* C10: every member a Reader hands to a Writer carries mtime as six fields
\* (year, month, day, hour, minute, second)
C10_Original ==
  member # NoMember => (member.mtime.kind = "tuple" /\ Len(member.mtime.val) = 6)

\* C8: on either command line the selected Writer is constructed on the
\* destination, args[1], supplied or computed, unless its constructor raises
C8_Original ==
  (Detected /\ pc # "writer" /\ reader.cls # "none") =>
    \/ writer.cls = opts.outmode /\ writer.path = Abspath(args[2])
    \/ raised \in {"IOError", "IOError: Directory exists!"}

\* the Readers of Vimballs
VimballReaders == {"vba", "vba.gz"}

\* C4: VimballReader yields a file member per file block, in the order of
\* the blocks
C4_Original ==
  (pc = "done" /\ reader.cls \in VimballReaders) => reader.yielded = reader.blocks

\* C1: a directory tree converted to a Vimball and the Vimball converted to
\* a directory: the second conversion completes, and every file of the tree
\* is in its output under the same name with the same content
C1_Original ==
  (/\ phase = "back"
   /\ first.reader = "dir"
   /\ first.writer = "vba"
   /\ writer.cls = "dir"
   /\ pc \in {"done", "error"}) =>
    /\ pc = "done"
    /\ \A f \in DOMAIN disk[first.src].files :
         /\ f \in DOMAIN disk[writer.path].files
         /\ disk[writer.path].files[f].data = disk[first.src].files[f].data


\* what VimballReader.__iter__ raises on a malformed Vimball
FormatErrors ==
  {"FIXME Bad Vimball", "FIXME Bad Vimball!", "FIXME Truncated Vimball"}

\* the line the next turn of the block loop reads as a header, and the next
NextHeader == ReadLine(reader.archive)

NextCount == ReadLine(AfterLine(reader.archive))

\* a line without the newline that ends it
Chomp(line) == IF EndsWith(line, <<"\n">>) THEN DropLast(line, 1) ELSE line

Digits == {"0", "1", "2", "3", "4", "5", "6", "7", "8", "9"}

PurelyDigits(text) == text # <<>> /\ \A i \in 1..Len(text) : text[i] \in Digits

\* the lines left in a stream, the last counted without a newline too
LinesLeft(rest) ==
  Count(rest, "\n") + (IF rest # <<>> /\ rest[Len(rest)] # "\n" THEN 1 ELSE 0)

\* a header line that does not end with the marker and a newline
BadHeader == NextHeader # <<>> /\ ~EndsWith(NextHeader, filemarker)

\* a count line that is not purely decimal digits
BadCount ==
  /\ EndsWith(NextHeader, filemarker)
  /\ NextCount # <<>>
  /\ ~PurelyDigits(Chomp(NextCount))

\* a count larger than the number of lines left
Truncated ==
  /\ EndsWith(NextHeader, filemarker)
  /\ PurelyDigits(Chomp(NextCount))
  /\ LinesLeft(AfterLine(AfterLine(reader.archive))) < ToInt(Chomp(NextCount))

\* C5: past the finish line, a header line without the marker, a count line
\* that is not purely digits and a count larger than the lines left each make
\* the iteration fail with a format error
C5_FormatErrors ==
  [][(pc = "blocks" /\ (BadHeader \/ BadCount \/ Truncated)) =>
       (pc' = "error" /\ raised' \in FormatErrors)]_vars

\* C5's case: after a block that was read, a count larger than the lines left
\* ended the iteration
C5_Witness ==
  /\ pc = "error"
  /\ raised = "FIXME Truncated Vimball"
  /\ reader.blocks # <<>>

\* the Writers of Vimballs
VimballWriters == {"vba", "vba.gz"}

\* the data of the file member of the run with the given name, at its source
SourceData(name) ==
  IF reader.cls = "dir" THEN Source.files[name].data ELSE reader.files[name]

\* the bytes of a file block: the name, the marker, the count of newlines of
\* the content as a decimal line, and the content, which is the data with a
\* newline appended unless it ends with one
ExpectedBlock(name, data) ==
  LET content == IF data # <<>> /\ data[Len(data)] = "\n" THEN data
                 ELSE Append(data, "\n")
      count   == Cardinality({i \in 1..Len(content) : content[i] = "\n"})
  IN  name \o <<"\t", "[", "[", "[", "1", "\n">> \o Str(count) \o <<"\n">>
      \o content

\* the example of C6: the directory {a/b.txt: "hi"}
ExampleTree ==
  /\ reader.cls = "dir"
  /\ DOMAIN Source.files = {<<"a", "/", "b", ".", "t", "x", "t">>}
  /\ Source.files[<<"a", "/", "b", ".", "t", "x", "t">>].data = <<"h", "i">>

ExampleBlock ==
  <<"a", "/", "b", ".", "t", "x", "t", "\t", "[", "[", "[", "1", "\n",
    "1", "\n", "h", "i", "\n">>

\* C6: the bytes a Vimball writer has written after the header are, for each
\* file member it was passed and in that order, the name, the marker, the
\* count line and the content; the member's data is as the Reader set it; and
\* {a/b.txt: "hi"} gives the three header lines and a/b.txt\t[[[1\n1\nhi\n
C6_BlockBytes ==
  (writer.cls \in VimballWriters /\ member # NoMember /\ pc # "error") =>
    /\ Concat(writer.writes) =
         VimballHeader
         \o Concat([i \in 1..Len(reader.yielded) |->
                      ExpectedBlock(reader.yielded[i],
                                    SourceData(reader.yielded[i]))])
    /\ ~IsDir(member) => member.data = SourceData(member.name)
    /\ (ExampleTree /\ pc = "done" /\ writer.cls = "vba") =>
         disk[writer.path].bytes = VimballHeader \o ExampleBlock

\* C6's case: a Vimball writer was passed a file member whose data does not
\* end with a newline, after another file member
C6_Witness ==
  /\ writer.cls = "vba"
  /\ Len(reader.yielded) = 2
  /\ ~IsDir(member)
  /\ member.data = <<"h", "i">>

\* C7: a Vimball writer writes the header once, in its first add and before
\* any block, also when that first member is a directory; and writes nothing
\* when add was never called
C7_HeaderOnce ==
  writer.cls \in VimballWriters =>
    /\ member = NoMember => writer.writes = <<>>
    /\ member # NoMember =>
         /\ writer.writes # <<>>
         /\ writer.writes[1] = VimballHeader
         /\ \A i \in 2..Len(writer.writes) : writer.writes[i] # VimballHeader

\* C7's case: a gzipped Vimball writer skipped a directory as its first member
\* and has written two blocks since
C7_Witness ==
  /\ writer.cls = "vba.gz"
  /\ reader.pos > 0
  /\ Len(reader.yielded) = 2
  /\ Len(writer.writes) = 7

====
